---------------------------- MODULE Spec2Model ----------------------------
(***************************************************************************)
(* Units -- Universal Converter (units.py): one Streamlit script, run from *)
(* top to bottom on every user interaction, over a per-session state.      *)
(*                                                                         *)
(* Text is a sequence of one-character strings (<<"4","2">> is "42");      *)
(* fixed words that the program never looks into (unit names, tool tags)   *)
(* are one-element sequences (<<"meter">>).                                *)
(***************************************************************************)
EXTENDS Integers, Sequences, FiniteSets, TLC

VARIABLES
    ureg,          \* the pint registry: unit name -> definition
    history,       \* st.session_state.history
    show_history,  \* st.session_state.show_history (absent = FALSE)
    tool,          \* sidebar radio "Choose tool"
    sub,           \* radio "Mode" of the ASCII / Unicode tool
    chars,         \* text input of "Char -> codes"
    code,          \* text input of "Code -> Char (Unicode)"
    run,           \* the latest script run: what was pressed, what it showed
    viewer,        \* what the Session History section rendered in that run
    nops,          \* number of add_history calls of the session so far
    fmt            \* a direct call of format_result: [value, precision, out]

vars == <<ureg, history, show_history, tool, sub, chars, code, run, viewer,
          nops, fmt>>

-----------------------------------------------------------------------------
(* Characters and text                                                     *)

Digits == <<"0", "1", "2", "3", "4", "5", "6", "7", "8", "9">>

LowerCase == <<"a", "b", "c", "d", "e", "f", "g", "h", "i", "j", "k", "l", "m",
               "n", "o", "p", "q", "r", "s", "t", "u", "v", "w", "x", "y", "z">>

UpperCase == <<"A", "B", "C", "D", "E", "F", "G", "H", "I", "J", "K", "L", "M",
               "N", "O", "P", "Q", "R", "S", "T", "U", "V", "W", "X", "Y", "Z">>

Range(f) == {f[i] : i \in DOMAIN f}

IsDigit(c) == c \in Range(Digits)

DigitVal(c) == (CHOOSE i \in 1..10 : Digits[i] = c) - 1

IsSpace(c) == c \in {" ", "\t", "\n", "\r"}

\* str.lower() / str.upper(), one character
Lower(c) ==
    IF c \in Range(UpperCase)
    THEN LowerCase[CHOOSE i \in 1..26 : UpperCase[i] = c]
    ELSE c

Upper(c) ==
    IF c \in Range(LowerCase)
    THEN UpperCase[CHOOSE i \in 1..26 : LowerCase[i] = c]
    ELSE c

LowerText(s) == [i \in 1..Len(s) |-> Lower(s[i])]

UpperText(s) == [i \in 1..Len(s) |-> Upper(s[i])]

\* str.strip()
strip(s) ==
    LET keep == {i \in 1..Len(s) : ~IsSpace(s[i])}
    IN  IF keep = {} THEN <<>>
        ELSE LET lo == CHOOSE i \in keep : \A j \in keep : i <= j
                 hi == CHOOSE i \in keep : \A j \in keep : j <= i
             IN  SubSeq(s, lo, hi)

\* str.rstrip(c)
RECURSIVE rstrip(_, _)
rstrip(s, c) ==
    IF s # <<>> /\ s[Len(s)] = c THEN rstrip(SubSeq(s, 1, Len(s) - 1), c) ELSE s

\* str.replace(c, "")
Without(s, c) == SelectSeq(s, LAMBDA x : x # c)

\* str.find(c) + 1: the first position of c in s, 0 when absent
Find(s, c) ==
    IF \E i \in 1..Len(s) : s[i] = c
    THEN CHOOSE i \in 1..Len(s) : s[i] = c /\ \A j \in 1..(i - 1) : s[j] # c
    ELSE 0

AllDigits(s) == \A i \in 1..Len(s) : IsDigit(s[i])

Repeat(c, n) == IF n <= 0 THEN <<>> ELSE [i \in 1..n |-> c]

\* digit characters <-> digit values
DigitVals(s) == [i \in 1..Len(s) |-> DigitVal(s[i])]

DigitChars(d) == [i \in 1..Len(d) |-> Digits[d[i] + 1]]

\* int() of a run of decimal digit characters
RECURSIVE NatOfDigits(_)
NatOfDigits(s) ==
    IF s = <<>> THEN 0
    ELSE 10 * NatOfDigits(SubSeq(s, 1, Len(s) - 1)) + DigitVal(s[Len(s)])

\* str() of a natural number
RECURSIVE StrOfNat(_)
StrOfNat(n) ==
    IF n < 10 THEN <<Digits[n + 1]>>
    ELSE Append(StrOfNat(n \div 10), Digits[(n % 10) + 1])

\* str() of an int
StrOfInt(n) == IF n < 0 THEN <<"-">> \o StrOfNat(-n) ELSE StrOfNat(n)

\* leading zeros of a digit sequence dropped, one digit kept: str(int(digits))
StripLeadingZeros(d) ==
    LET nz == {i \in 1..Len(d) : d[i] # 0}
    IN  IF nz = {} THEN <<0>>
        ELSE SubSeq(d, CHOOSE i \in nz : \A j \in nz : i <= j, Len(d))

-----------------------------------------------------------------------------
(* decimal.Decimal: sign, coefficient digits, exponent; or a special value *)

\* A number of the program is a Decimal or a float. A float is written by
\* the decimal digits of its repr (the shortest digits that read back as the
\* same double); via is <<>>, or names the pint conversion <<from, to>> whose
\* double product of this value it stands for.
Num(type, kind, sign, coef, exp, via) ==
    [type |-> type, kind |-> kind, sign |-> sign, coef |-> coef, exp |-> exp,
     via |-> via]

Dec(kind, sign, coef, exp) == Num("Decimal", kind, sign, coef, exp, <<>>)

Flt(kind, sign, coef, exp) == Num("float", kind, sign, coef, exp, <<>>)

\* what parse_decimal_input returns for text Decimal() refuses
None == Dec("None", 0, <<>>, 0)

IsFinite(d) == d.kind = "finite"

IsZero(d) == d.kind = "finite" /\ d.coef = <<0>>

\* the text of an optionally signed run of digits, as an int
SignedInt(s) ==
    IF s # <<>> /\ s[1] = "-" THEN -NatOfDigits(Tail(s))
    ELSE IF s # <<>> /\ s[1] = "+" THEN NatOfDigits(Tail(s))
    ELSE NatOfDigits(s)

IsSignedInt(s) ==
    LET body == IF s # <<>> /\ s[1] \in {"+", "-"} THEN Tail(s) ELSE s
    IN  body # <<>> /\ AllDigits(body)

\* Decimal(text): the constructor's grammar (surrounding whitespace and
\* underscores dropped, case ignored); None where it raises InvalidOperation
DecimalOf(text) ==
    LET Diag(d) == IF NatOfDigits(d) = 0 THEN <<>>
                   ELSE StripLeadingZeros(DigitVals(d))
        \* integer part, fraction part, exponent part
        Finite(sign, ip, fp, hasexp, expt) ==
            IF /\ AllDigits(ip) /\ AllDigits(fp)
               /\ (ip # <<>> \/ fp # <<>>)
               /\ (~hasexp \/ IsSignedInt(expt))
            THEN Dec("finite", sign, StripLeadingZeros(DigitVals(ip \o fp)),
                     (IF hasexp THEN SignedInt(expt) ELSE 0) - Len(fp))
            ELSE None
        Mantissa(sign, mant, dpos, hasexp, expt) ==
            Finite(sign,
                   IF dpos = 0 THEN mant ELSE SubSeq(mant, 1, dpos - 1),
                   IF dpos = 0 THEN <<>> ELSE SubSeq(mant, dpos + 1, Len(mant)),
                   hasexp, expt)
        Split(sign, mant, hasexp, expt) ==
            Mantissa(sign, mant, Find(mant, "."), hasexp, expt)
        Numeral(sign, r, epos) ==
            IF r \in {<<"i", "n", "f">>, <<"i", "n", "f", "i", "n", "i", "t", "y">>}
            THEN Dec("Infinity", sign, <<0>>, 0)
            ELSE IF /\ Len(r) >= 3 /\ SubSeq(r, 1, 3) = <<"n", "a", "n">>
                    /\ AllDigits(SubSeq(r, 4, Len(r)))
            THEN Dec("NaN", sign, Diag(SubSeq(r, 4, Len(r))), 0)
            ELSE IF /\ Len(r) >= 4 /\ SubSeq(r, 1, 4) = <<"s", "n", "a", "n">>
                    /\ AllDigits(SubSeq(r, 5, Len(r)))
            THEN Dec("sNaN", sign, Diag(SubSeq(r, 5, Len(r))), 0)
            ELSE Split(sign,
                       IF epos = 0 THEN r ELSE SubSeq(r, 1, epos - 1),
                       epos # 0,
                       IF epos = 0 THEN <<>> ELSE SubSeq(r, epos + 1, Len(r)))
        Unsigned(sign, r) == Numeral(sign, r, Find(r, "e"))
        Signed(t) ==
            Unsigned(IF t # <<>> /\ t[1] = "-" THEN 1 ELSE 0,
                     IF t # <<>> /\ t[1] \in {"+", "-"} THEN Tail(t) ELSE t)
    IN  Signed(LowerText(strip(Without(strip(text), "_"))))

\* str(Decimal): the to-scientific-string of the decimal specification
DecimalStr(d) ==
    LET sg         == IF d.sign = 1 THEN <<"-">> ELSE <<>>
        digs       == DigitChars(d.coef)
        n          == Len(digs)
        leftdigits == d.exp + n
        dotplace   == IF d.exp <= 0 /\ leftdigits > -6 THEN leftdigits ELSE 1
        intpart    == IF dotplace <= 0 THEN <<"0">>
                      ELSE IF dotplace >= n THEN digs \o Repeat("0", dotplace - n)
                      ELSE SubSeq(digs, 1, dotplace)
        fracpart   == IF dotplace <= 0 THEN <<".">> \o Repeat("0", -dotplace) \o digs
                      ELSE IF dotplace >= n THEN <<>>
                      ELSE <<".">> \o SubSeq(digs, dotplace + 1, n)
        e          == leftdigits - dotplace
        exppart    == IF e = 0 THEN <<>>
                      ELSE <<"E", IF e < 0 THEN "-" ELSE "+">>
                           \o StrOfNat(IF e < 0 THEN -e ELSE e)
    IN  CASE d.kind = "Infinity" -> sg \o <<"I", "n", "f", "i", "n", "i", "t", "y">>
          [] d.kind = "NaN"      -> sg \o <<"N", "a", "N">> \o digs
          [] d.kind = "sNaN"     -> sg \o <<"s", "N", "a", "N">> \o digs
          [] OTHER               -> sg \o intpart \o fracpart \o exppart

\* Helper: parse Decimal from input safely
parse_decimal_input(text) == DecimalOf(strip(text))

-----------------------------------------------------------------------------
(* Digit arithmetic on coefficients                                        *)

StripTrailingZeros(d) ==
    LET nz == {i \in 1..Len(d) : d[i] # 0}
    IN  IF d = <<>> THEN d
        ELSE IF nz = {} THEN <<0>>
        ELSE SubSeq(d, 1, CHOOSE i \in nz : \A j \in nz : j <= i)

\* the coefficient without trailing zeros, the exponent raised to match
Normalize(x) ==
    IF x.coef = <<0>> THEN [x EXCEPT !.exp = 0]
    ELSE LET c == StripTrailingZeros(x.coef)
         IN  [x EXCEPT !.coef = c, !.exp = x.exp + (Len(x.coef) - Len(c))]

\* digits + 1
RECURSIVE Increment(_)
Increment(d) ==
    IF d = <<>> THEN <<1>>
    ELSE IF d[Len(d)] < 9 THEN [d EXCEPT ![Len(d)] = d[Len(d)] + 1]
    ELSE Append(Increment(SubSeq(d, 1, Len(d) - 1)), 0)

\* a < b for digit sequences of one length
RECURSIVE DigitsLess(_, _)
DigitsLess(a, b) ==
    IF a = <<>> THEN FALSE
    ELSE IF a[1] # b[1] THEN a[1] < b[1]
    ELSE DigitsLess(Tail(a), Tail(b))

\* 2^53, the first integer whose successor is no double
TwoTo53 == <<9, 0, 0, 7, 1, 9, 9, 2, 5, 4, 7, 4, 0, 9, 9, 2>>

\* decimal digits every double carries unchanged (DBL_DIG)
DblDig == 15

\* float(): the double nearest to the finite decimal x, round-half-even.
\*  - at most DblDig significant digits: the repr of the double is x itself;
\*  - a 16-digit integer (below 2^54): exact below 2^53 and when even, else the
\*    neighbour whose 53-bit significand is even (the multiple of 4);
\*  - anything longer: a double whose digits the model does not compute
\*    (via = <<"nearest">>).
FloatNearest(x) ==
    LET n  == Normalize(x)
        c  == n.coef
        m4 == (10 * c[Len(c) - 1] + c[Len(c)]) % 4
    IN  IF Len(c) <= DblDig THEN Num("float", "finite", n.sign, c, n.exp, <<>>)
        ELSE IF Len(c) = 16 /\ n.exp = 0
        THEN IF DigitsLess(c, TwoTo53) \/ c[16] % 2 = 0
             THEN Num("float", "finite", n.sign, c, 0, <<>>)
             ELSE Normalize(Num("float", "finite", n.sign,
                                IF m4 = 1 THEN [c EXCEPT ![16] = c[16] - 1]
                                ELSE Increment(c), 0, <<>>))
        ELSE Num("float", "finite", n.sign, c, n.exp, <<"nearest">>)

\* str(float): repr. Fixed notation for a decimal point position in -3..16,
\* exponent notation outside; "nan", "inf".
FloatStr(f) ==
    LET sg    == IF f.sign = 1 THEN <<"-">> ELSE <<>>
        D     == DigitChars(f.coef)
        nd    == Len(D)
        decpt == nd + f.exp
        e     == decpt - 1
        ea    == IF e < 0 THEN -e ELSE e
        body  ==
            IF f.coef = <<0>> THEN <<"0", ".", "0">>
            ELSE IF decpt > -4 /\ decpt <= 16
            THEN IF decpt <= 0 THEN <<"0", ".">> \o Repeat("0", -decpt) \o D
                 ELSE IF decpt >= nd
                 THEN D \o Repeat("0", decpt - nd) \o <<".", "0">>
                 ELSE SubSeq(D, 1, decpt) \o <<".">> \o SubSeq(D, decpt + 1, nd)
            ELSE <<D[1]>> \o (IF nd > 1 THEN <<".">> \o Tail(D) ELSE <<>>)
                 \o <<"e", IF e < 0 THEN "-" ELSE "+">>
                 \o (IF ea < 10 THEN <<"0">> ELSE <<>>) \o StrOfNat(ea)
    IN  CASE f.kind = "nan" -> <<"n", "a", "n">>
          [] f.kind = "inf" -> sg \o <<"i", "n", "f">>
          [] f.via # <<>>   -> <<"repr of the double">> \o f.via \o sg \o body
          [] OTHER          -> sg \o body

-----------------------------------------------------------------------------
(* Result formatter                                                        *)

\* getcontext().prec = 200
DecimalPrec == 200

\* what a Decimal operation that raises InvalidOperation "returns"
Raised == Dec("raised", 0, <<>>, 0)

\* the first Len(c) - k digits of c, rounded half-even on the k dropped ones
RoundHalfEven(c, k) ==
    LET padded == Repeat(0, k - Len(c) + 1) \o c
        n      == Len(padded)
        kept   == SubSeq(padded, 1, n - k)
        drop   == SubSeq(padded, n - k + 1, n)
        rest0  == \A i \in 2..k : drop[i] = 0
        up     == \/ drop[1] > 5
                  \/ drop[1] = 5 /\ ~rest0
                  \/ drop[1] = 5 /\ rest0 /\ kept[Len(kept)] % 2 = 1
    IN  StripLeadingZeros(IF up THEN Increment(kept) ELSE kept)

\* Decimal.quantize(Decimal('0.' + '0' * precision)) in the default context
\* (ROUND_HALF_EVEN): InvalidOperation for an infinity, a signalling NaN,
\* and a result of more than DecimalPrec digits; a quiet NaN passes through.
quantize(d, precision) ==
    LET k   == (-precision) - d.exp
        res == IF k <= 0 THEN d.coef \o Repeat(0, -k)
               ELSE RoundHalfEven(d.coef, k)
    IN  CASE d.kind = "NaN" -> d
          [] d.kind \in {"sNaN", "Infinity"} -> Raised
          [] IsZero(d) -> Dec("finite", d.sign, <<0>>, -precision)
          [] OTHER ->
              IF Len(d.coef) + d.exp + precision > DecimalPrec
                 \/ Len(res) > DecimalPrec
              THEN Raised
              ELSE Dec("finite", d.sign, res, -precision)

\* format(q, 'f') of a Decimal
FormatF(q) ==
    LET sg     == IF q.sign = 1 THEN <<"-">> ELSE <<>>
        places == -q.exp
        digs   == Repeat("0", places + 1 - Len(q.coef)) \o DigitChars(q.coef)
        n      == Len(digs)
    IN  IF q.kind # "finite" THEN DecimalStr(q)
        ELSE IF q.exp >= 0 THEN sg \o DigitChars(q.coef) \o Repeat("0", q.exp)
        ELSE sg \o SubSeq(digs, 1, n - places) \o <<".">>
                \o SubSeq(digs, n - places + 1, n)

\* float(value) of the fallback: a float is itself; a Decimal rounds to the
\* nearest double; float(Decimal('sNaN')) raises
FloatOf(value) ==
    IF value.type = "float" THEN value
    ELSE CASE value.kind = "finite"   -> FloatNearest(value)
           [] value.kind = "NaN"      -> Flt("nan", value.sign, <<0>>, 0)
           [] value.kind = "Infinity" -> Flt("inf", value.sign, <<0>>, 0)
           [] OTHER                   -> Flt("raised", 0, <<0>>, 0)

\* f"{x:.{precision}f}": the binary value of the double x, written out and
\* rounded to precision places. An integer below 10^DblDig is a double and
\* is written as it stands; x = c * 10^e with e >= 23 is no double (its odd
\* part is at least 5^23 > 2^53), so the digits written are those of the
\* neighbouring double, which the model does not compute.
FloatFixed(x, precision) ==
    LET sg == IF x.sign = 1 THEN <<"-">> ELSE <<>>
    IN  CASE x.kind = "nan" -> <<"n", "a", "n">>
          [] x.kind = "inf" -> sg \o <<"i", "n", "f">>
          [] x.via = <<>> /\ x.exp >= 0 /\ Len(x.coef) + x.exp <= DblDig ->
                sg \o DigitChars(x.coef) \o Repeat("0", x.exp) \o <<".">>
                   \o Repeat("0", precision)
          [] OTHER -> <<"digits of the double">> \o FloatStr(x)
                      \o <<".">> \o Repeat("0", precision)

\* Helper: format result with proper precision
format_result(value, precision) ==
    LET \* the except branches
        Fallback(x) ==
            IF x.kind # "raised"
            THEN rstrip(rstrip(FloatFixed(x, precision), "0"), ".")
            ELSE IF value.type = "Decimal" THEN DecimalStr(value)
            ELSE FloatStr(value)
        Quantized(quantized) ==
            IF quantized.kind # "raised"
            THEN rstrip(rstrip(FormatF(quantized), "0"), ".")
            ELSE Fallback(FloatOf(value))
        Formatted(dec_val) ==
            Quantized(IF dec_val.kind = "None" THEN Raised
                      ELSE quantize(dec_val, precision))
    IN  IF value.via # <<>>
        THEN <<"format_result of">> \o FloatStr(value)
        ELSE Formatted(IF value.type = "Decimal" THEN value
                       ELSE DecimalOf(FloatStr(value)))

-----------------------------------------------------------------------------
(* Unit registry (pint) + extras                                           *)
(* A definition is <<name, factor, reference>>: the unit is factor times   *)
(* the product of the referenced units to the given powers. A base unit    *)
(* refers to its dimension, or to nothing when it is dimensionless.        *)

BaseDims == {"[length]", "[mass]", "[time]", "[temperature]", "[information]"}

\* ureg = UnitRegistry(): the definitions of pint's default registry that
\* the script's unit names resolve to, prefixed names included
PintDefaults == <<
    <<"meter", "base", <<<<"[length]", 1>>>>>>,
    <<"gram", "base", <<<<"[mass]", 1>>>>>>,
    <<"second", "base", <<<<"[time]", 1>>>>>>,
    <<"kelvin", "base", <<<<"[temperature]", 1>>>>>>,
    <<"radian", "base", <<>>>>,
    <<"bit", "base", <<>>>>,
    <<"byte", "8", <<<<"bit", 1>>>>>>,
    <<"nanometer", "1e-9", <<<<"meter", 1>>>>>>,
    <<"micrometer", "1e-6", <<<<"meter", 1>>>>>>,
    <<"millimeter", "1e-3", <<<<"meter", 1>>>>>>,
    <<"centimeter", "1e-2", <<<<"meter", 1>>>>>>,
    <<"decimeter", "1e-1", <<<<"meter", 1>>>>>>,
    <<"kilometer", "1e3", <<<<"meter", 1>>>>>>,
    <<"yard", "0.9144", <<<<"meter", 1>>>>>>,
    <<"inch", "1/36", <<<<"yard", 1>>>>>>,
    <<"foot", "12", <<<<"inch", 1>>>>>>,
    <<"mile", "1760", <<<<"yard", 1>>>>>>,
    <<"are", "100", <<<<"meter", 2>>>>>>,
    <<"hectare", "100", <<<<"are", 1>>>>>>,
    <<"square_inch", "1", <<<<"inch", 2>>>>>>,
    <<"square_foot", "1", <<<<"foot", 2>>>>>>,
    <<"square_yard", "1", <<<<"yard", 2>>>>>>,
    <<"square_mile", "1", <<<<"mile", 2>>>>>>,
    <<"liter", "1", <<<<"decimeter", 3>>>>>>,
    <<"milliliter", "1e-3", <<<<"liter", 1>>>>>>,
    <<"centiliter", "1e-2", <<<<"liter", 1>>>>>>,
    <<"deciliter", "1e-1", <<<<"liter", 1>>>>>>,
    <<"hectoliter", "1e2", <<<<"liter", 1>>>>>>,
    <<"milligram", "1e-3", <<<<"gram", 1>>>>>>,
    <<"kilogram", "1e3", <<<<"gram", 1>>>>>>,
    <<"degC", "1; offset: 273.15", <<<<"kelvin", 1>>>>>>,
    <<"degF", "5/9; offset: 233.15 + 200/9", <<<<"kelvin", 1>>>>>>,
    <<"minute", "60", <<<<"second", 1>>>>>>,
    <<"hour", "60", <<<<"minute", 1>>>>>>,
    <<"newton", "1", <<<<"kilogram", 1>>, <<"meter", 1>>, <<"second", -2>>>>>>,
    <<"pascal", "1", <<<<"newton", 1>>, <<"meter", -2>>>>>>,
    <<"kilopascal", "1e3", <<<<"pascal", 1>>>>>>,
    <<"joule", "1", <<<<"newton", 1>>, <<"meter", 1>>>>>>,
    <<"kilojoule", "1e3", <<<<"joule", 1>>>>>>,
    <<"watt", "1", <<<<"joule", 1>>, <<"second", -1>>>>>>,
    <<"degree", "pi/180", <<<<"radian", 1>>>>>>,
    <<"grad", "pi/200", <<<<"radian", 1>>>>>> >>

\* EXTRA_DEFS, one definition per line that is neither blank nor a comment
EXTRA_DEFS == <<
    <<"nautical_mile", "1852", <<<<"meter", 1>>>>>>,
    <<"statute_mile", "1609.344", <<<<"meter", 1>>>>>>,
    <<"mile_us_survey", "1609.347218694", <<<<"meter", 1>>>>>>,
    <<"foot_us_survey", "0.3048006096", <<<<"meter", 1>>>>>>,
    <<"inch", "0.0254", <<<<"meter", 1>>>>>>,
    <<"yard", "0.9144", <<<<"meter", 1>>>>>>,
    <<"acre_intl", "4046.8564224", <<<<"meter", 2>>>>>>,
    <<"acre_us_survey", "4046.872609874", <<<<"meter", 2>>>>>>,
    <<"gallon_us", "3.785411784", <<<<"liter", 1>>>>>>,
    <<"fluid_ounce_us", "0.0295735295625", <<<<"liter", 1>>>>>>,
    <<"cup_us", "0.2365882365", <<<<"liter", 1>>>>>>,
    <<"pint_us", "0.473176473", <<<<"liter", 1>>>>>>,
    <<"quart_us", "0.946352946", <<<<"liter", 1>>>>>>,
    <<"fluid_ounce_imp", "0.0284130625", <<<<"liter", 1>>>>>>,
    <<"pint_imp", "0.56826125", <<<<"liter", 1>>>>>>,
    <<"quart_imp", "1.1365225", <<<<"liter", 1>>>>>>,
    <<"gallon_imp", "4.54609", <<<<"liter", 1>>>>>>,
    <<"teaspoon_us", "0.00492892159375", <<<<"liter", 1>>>>>>,
    <<"tablespoon_us", "0.01478676478125", <<<<"liter", 1>>>>>>,
    <<"tablespoon_metric", "0.015", <<<<"liter", 1>>>>>>,
    <<"tablespoon_au", "0.02", <<<<"liter", 1>>>>>>,
    <<"barrel_oil_us", "158.987294928", <<<<"liter", 1>>>>>>,
    <<"barrel_beer_us", "117.347765304", <<<<"liter", 1>>>>>>,
    <<"barrel_beer_uk", "163.65924", <<<<"liter", 1>>>>>>,
    <<"pound", "0.45359237", <<<<"kilogram", 1>>>>>>,
    <<"ton_short", "907.18474", <<<<"kilogram", 1>>>>>>,
    <<"ton_long", "1016.0469088", <<<<"kilogram", 1>>>>>>,
    <<"tonne", "1000", <<<<"kilogram", 1>>>>>>,
    <<"quintal", "100", <<<<"kilogram", 1>>>>>>,
    <<"ounce", "0.028349523125", <<<<"kilogram", 1>>>>>>,
    <<"stone", "6.35029318", <<<<"kilogram", 1>>>>>>,
    <<"knot", "0.514444444", <<<<"meter", 1>>, <<"second", -1>>>>>>,
    <<"mile_per_hour", "0.44704", <<<<"meter", 1>>, <<"second", -1>>>>>>,
    <<"bar", "100000", <<<<"pascal", 1>>>>>>,
    <<"millibar", "100", <<<<"pascal", 1>>>>>>,
    <<"atmosphere", "101325", <<<<"pascal", 1>>>>>>,
    <<"mmHg", "133.322387415", <<<<"pascal", 1>>>>>>,
    <<"psi", "6894.757293168", <<<<"pascal", 1>>>>>>,
    <<"calorie", "4.184", <<<<"joule", 1>>>>>>,
    <<"kcal", "4184", <<<<"joule", 1>>>>>>,
    <<"BTU", "1055.05585262", <<<<"joule", 1>>>>>>,
    <<"watt_hour", "3600", <<<<"joule", 1>>>>>>,
    <<"kilowatt_hour", "3600000", <<<<"joule", 1>>>>>>,
    <<"mile_per_gallon_us", "1", <<<<"statute_mile", 1>>, <<"gallon_us", -1>>>>>>,
    <<"mile_per_gallon_imp", "1", <<<<"statute_mile", 1>>, <<"gallon_imp", -1>>>>>>,
    <<"liter_per_100_kilometer", "235.2145833", <<<<"mile_per_gallon_us", -1>>>>>>,
    <<"byte", "base", <<<<"[information]", 1>>>>>>,
    <<"kB", "1000", <<<<"byte", 1>>>>>>,
    <<"MB", "1000000", <<<<"byte", 1>>>>>>,
    <<"GB", "1000000000", <<<<"byte", 1>>>>>>,
    <<"TB", "1000000000000", <<<<"byte", 1>>>>>>,
    <<"PB", "1000000000000000", <<<<"byte", 1>>>>>>,
    <<"KiB", "1024", <<<<"byte", 1>>>>>>,
    <<"MiB", "1048576", <<<<"byte", 1>>>>>>,
    <<"GiB", "1073741824", <<<<"byte", 1>>>>>>,
    <<"TiB", "1099511627776", <<<<"byte", 1>>>>>>,
    <<"PiB", "1125899906842624", <<<<"byte", 1>>>>>>,
    <<"degree", "0.0174532925199433", <<<<"radian", 1>>>>>>,
    <<"grad", "0.015707963267949", <<<<"radian", 1>>>>>> >>

\* ureg.define(line) for every line, after the defaults were loaded: the
\* registry maps each name to its latest definition
define(defs) ==
    [n \in {defs[i][1] : i \in DOMAIN defs} |->
        LET last == CHOOSE i \in DOMAIN defs :
                        defs[i][1] = n /\ \A j \in DOMAIN defs : defs[j][1] = n => j <= i
        IN  [factor |-> defs[last][2], reference |-> defs[last][3]]]

Registry == define(PintDefaults \o EXTRA_DEFS)

\* the units a unit string names, with their powers (pint's string parser,
\* on the strings of CATEGORIES)
ParseUnits(unit_str) ==
    CASE unit_str = "millimeter**2"  -> <<<<"millimeter", 2>>>>
      [] unit_str = "centimeter**2"  -> <<<<"centimeter", 2>>>>
      [] unit_str = "meter**2"       -> <<<<"meter", 2>>>>
      [] unit_str = "kilometer**2"   -> <<<<"kilometer", 2>>>>
      [] unit_str = "meter**3"       -> <<<<"meter", 3>>>>
      [] unit_str = "meter/second"   -> <<<<"meter", 1>>, <<"second", -1>>>>
      [] unit_str = "kilometer/hour" -> <<<<"kilometer", 1>>, <<"hour", -1>>>>
      [] OTHER                       -> <<<<unit_str, 1>>>>

\* every unit of the container has a definition (else UndefinedUnitError)
Defined(reg, units) == \A i \in DOMAIN units : units[i][1] \in DOMAIN reg

ZeroDim == [d \in BaseDims |-> 0]

\* pint's dimensionality of a units container: the powers of the base
\* dimensions, found by unfolding every definition down to the base units
RECURSIVE Dimensionality(_, _)
Dimensionality(reg, units) ==
    IF units = <<>> THEN ZeroDim
    ELSE LET name == units[1][1]
             pow  == units[1][2]
             rest == Dimensionality(reg, Tail(units))
             own  == IF name \in BaseDims
                     THEN [d \in BaseDims |-> IF d = name THEN 1 ELSE 0]
                     ELSE Dimensionality(reg, reg[name].reference)
         IN  [d \in BaseDims |-> pow * own[d] + rest[d]]

-----------------------------------------------------------------------------
(* Unit categories and lists                                               *)

CATEGORIES ==
    ("Length" :> <<"nanometer", "micrometer", "millimeter", "centimeter",
                   "decimeter", "meter", "kilometer", "inch", "foot",
                   "foot_us_survey", "yard", "statute_mile", "mile_us_survey",
                   "nautical_mile">>)
 @@ ("Area" :> <<"millimeter**2", "centimeter**2", "meter**2", "hectare",
                 "acre_intl", "acre_us_survey", "kilometer**2", "square_inch",
                 "square_foot", "square_yard", "square_mile">>)
 @@ ("Volume" :> <<"milliliter", "centiliter", "deciliter", "liter",
                   "hectoliter", "meter**3", "teaspoon_us", "tablespoon_us",
                   "tablespoon_metric", "tablespoon_au", "fluid_ounce_us",
                   "cup_us", "pint_us", "quart_us", "gallon_us",
                   "fluid_ounce_imp", "pint_imp", "quart_imp", "gallon_imp",
                   "barrel_oil_us", "barrel_beer_us", "barrel_beer_uk">>)
 @@ ("Mass" :> <<"milligram", "gram", "kilogram", "quintal", "tonne", "ounce",
                 "pound", "stone", "ton_short", "ton_long">>)
 @@ ("Temperature" :> <<"degC", "degF", "kelvin">>)
 @@ ("Speed" :> <<"meter/second", "kilometer/hour", "mile_per_hour", "knot">>)
 @@ ("Pressure" :> <<"pascal", "kilopascal", "bar", "millibar", "atmosphere",
                     "mmHg", "psi">>)
 @@ ("Energy & Power" :> <<"joule", "kilojoule", "watt_hour", "kilowatt_hour",
                           "calorie", "kcal", "BTU", "watt">>)
 @@ ("Fuel economy" :> <<"liter_per_100_kilometer", "mile_per_gallon_us",
                         "mile_per_gallon_imp">>)
 @@ ("Digital storage" :> <<"bit", "byte", "kB", "MB", "GB", "TB", "PB", "KiB",
                            "MiB", "GiB", "TiB", "PiB">>)
 @@ ("Angle" :> <<"degree", "radian", "grad">>)

-----------------------------------------------------------------------------
(* Session state: history                                                  *)

\* history[:500]
HistoryCap == 500

Min(a, b) == IF a <= b THEN a ELSE b

\* add_history without the [:500]
AddHistoryUncapped(h, obj) == <<obj>> \o h

add_history(h, obj) == SubSeq(<<obj>> \o h, 1, Min(Len(h) + 1, HistoryCap))

\* what a handler leaves behind: the messages it showed, the history after
\* it, how many entries it appended, and the local values the run computed
Outcome(msgs, hist, added, locals) ==
    [msgs |-> msgs, hist |-> hist, added |-> added, locals |-> locals]

Error(text, exc) == [kind |-> "error", text |-> text, exc |-> exc]

Success(text) == [kind |-> "success", text |-> text, exc |-> ""]

Shown(text) == [kind |-> "write", text |-> text, exc |-> ""]

-----------------------------------------------------------------------------
(* Tool: Unit Converter                                                    *)

\* mp.mpf(text): "nan" and "inf" by name, else a float literal whose digits
\* int() reads: a sign, digits with at most one point, an exponent. Returns
\* the Decimal read (mpf carries it at 50 digits), or None when it raises.
mpf(text) ==
    LET x == LowerText(strip(text))
        d == DecimalOf(x)
    IN  IF x = <<"n", "a", "n">> THEN Dec("NaN", 0, <<>>, 0)
        ELSE IF x \in {<<"i", "n", "f">>, <<"+", "i", "n", "f">>}
        THEN Dec("Infinity", 0, <<0>>, 0)
        ELSE IF x = <<"-", "i", "n", "f">> THEN Dec("Infinity", 1, <<0>>, 0)
        ELSE IF d.kind = "finite" /\ Find(x, "_") = 0 THEN d
        ELSE None

\* Helper: convert Decimal-valued quantity to pint Quantity.
\* Returns the quantity, or None and the exception st.error reports.
quantity_from_decimal(reg, value_decimal, unit_str) ==
    LET value_mp == mpf(DecimalStr(value_decimal))
        units    == ParseUnits(unit_str)
    IN  IF value_mp.kind = "None"
        THEN [q |-> None, exc |-> "ValueError"]
        ELSE IF ~Defined(reg, units)
        THEN [q |-> None, exc |-> "UndefinedUnitError"]
        ELSE [q |-> [magnitude |-> FloatOf(value_mp), units |-> units,
                     unit_str |-> unit_str],
              exc |-> ""]

\* a to() that converts whatever the dimensionalities are
ToUnchecked(reg, q, to_unit) ==
    IF ~Defined(reg, ParseUnits(to_unit))
    THEN [magnitude |-> None, exc |-> "UndefinedUnitError"]
    ELSE [magnitude |-> q.magnitude, exc |-> ""]

\* Quantity.to(to_unit): the magnitude in the other unit, or the exception.
\* Equal units return the magnitude as it is; a NaN stays a NaN; any other
\* value becomes the double pint's multiplication yields (via names it).
to(reg, q, to_unit) ==
    LET dst == ParseUnits(to_unit)
        m   == q.magnitude
    IN  IF ~Defined(reg, dst)
        THEN [magnitude |-> None, exc |-> "UndefinedUnitError"]
        ELSE IF q.units = dst THEN [magnitude |-> m, exc |-> ""]
        ELSE IF Dimensionality(reg, q.units) # Dimensionality(reg, dst)
        THEN [magnitude |-> None, exc |-> "DimensionalityError"]
        ELSE [magnitude |-> IF m.kind \in {"nan", "inf"} THEN m
                            ELSE [m EXCEPT !.via = m.via \o <<q.unit_str, to_unit>>],
              exc |-> ""]

\* if convert_btn: ...
UnitConverter(reg, h, cat, from_unit, to_unit, raw_text, prec) ==
    LET Failed(dec_val, msgs) ==
            Outcome(msgs, h, <<>>, [dec_val |-> dec_val, magnitude |-> None])
        Entry(value, formatted) ==
            [tool |-> <<"unit">>, category |-> <<cat>>, from |-> <<from_unit>>,
             to |-> <<to_unit>>, value |-> value, result |-> formatted]
        Added(dec_val, magnitude, out_str, entry) ==
            Outcome(<<Success(out_str)>>, add_history(h, entry), <<entry>>,
                    [dec_val |-> dec_val, magnitude |-> magnitude])
        Formatted(dec_val, value, magnitude, formatted) ==
            Added(dec_val, magnitude,
                  value \o <<" ", from_unit, " ", "=", " ">> \o formatted
                        \o <<" ", to_unit>>,
                  Entry(value, formatted))
        Converted(dec_val, q_to) ==
            IF q_to.exc = "UndefinedUnitError"
            THEN Failed(dec_val, <<Error(<<"Undefined unit: ">>, q_to.exc)>>)
            ELSE IF q_to.exc # ""
            THEN Failed(dec_val, <<Error(<<"Conversion error: ">>, q_to.exc)>>)
            ELSE Formatted(dec_val, DecimalStr(dec_val), q_to.magnitude,
                           format_result(q_to.magnitude, prec))
        Created(dec_val, made) ==
            IF made.exc # ""
            THEN Failed(dec_val, <<Error(<<"Quantity creation error: ">>, made.exc),
                                   Error(<<"Failed to create quantity.">>, "")>>)
            ELSE Converted(dec_val, to(reg, made.q, to_unit))
        Parsed(dec_val) ==
            IF dec_val.kind = "None"
            THEN Failed(dec_val, <<Error(<<"Invalid numeric input.">>, "")>>)
            ELSE Created(dec_val, quantity_from_decimal(reg, dec_val, from_unit))
    IN  Parsed(parse_decimal_input(raw_text))

-----------------------------------------------------------------------------
(* Tool: Number Bases                                                      *)

BaseDigits == <<"0", "1", "2", "3", "4", "5", "6", "7", "8", "9",
                "a", "b", "c", "d", "e", "f">>

Radix(base) ==
    CASE base = "decimal"     -> 10
      [] base = "binary"      -> 2
      [] base = "octal"       -> 8
      [] base = "hexadecimal" -> 16

\* the letter of the prefix int() accepts for a radix ("" for radix 10)
PrefixLetter(radix) ==
    CASE radix = 2  -> "b"
      [] radix = 8  -> "o"
      [] radix = 16 -> "x"
      [] OTHER      -> ""

IsDigitOf(c, radix) ==
    \E i \in 1..radix : BaseDigits[i] = Lower(c)

ValueOf(c) == (CHOOSE i \in 1..16 : BaseDigits[i] = Lower(c)) - 1

\* the digits of n >= 0 in the radix, lower case
RECURSIVE DigitsIn(_, _)
DigitsIn(n, radix) ==
    IF n < radix THEN <<BaseDigits[n + 1]>>
    ELSE Append(DigitsIn(n \div radix, radix), BaseDigits[(n % radix) + 1])

RECURSIVE Horner(_, _)
Horner(s, radix) ==
    IF s = <<>> THEN 0
    ELSE radix * Horner(SubSeq(s, 1, Len(s) - 1), radix) + ValueOf(s[Len(s)])

\* int(s, radix): surrounding whitespace, one sign, the radix's prefix
\* (0b, 0o, 0x), then digits of the radix with single underscores between
\* them (one may follow the prefix). [ok, n]; ok is FALSE where int() raises.
int(s, radix) ==
    LET WellFormed(digs) ==
            /\ digs # <<>>
            /\ digs[1] # "_" /\ digs[Len(digs)] # "_"
            /\ \A i \in 1..(Len(digs) - 1) : ~(digs[i] = "_" /\ digs[i + 1] = "_")
            /\ \A i \in 1..Len(digs) : digs[i] = "_" \/ IsDigitOf(digs[i], radix)
        Magnitude(neg, mag) == [ok |-> TRUE, n |-> IF neg THEN -mag ELSE mag]
        Digs(neg, digs) ==
            IF WellFormed(digs) THEN Magnitude(neg, Horner(Without(digs, "_"), radix))
            ELSE [ok |-> FALSE, n |-> 0]
        \* the underscore after a prefix
        Body(neg, prefixed, body) ==
            Digs(neg, IF prefixed /\ body # <<>> /\ body[1] = "_"
                      THEN Tail(body) ELSE body)
        Prefixed(neg, r, prefixed) ==
            Body(neg, prefixed, IF prefixed THEN SubSeq(r, 3, Len(r)) ELSE r)
        Unsigned(neg, r) ==
            Prefixed(neg, r,
                     /\ Len(r) >= 2 /\ r[1] = "0"
                     /\ PrefixLetter(radix) # ""
                     /\ Lower(r[2]) = PrefixLetter(radix))
        Signed(t) ==
            Unsigned(t # <<>> /\ t[1] = "-",
                     IF t # <<>> /\ t[1] \in {"+", "-"} THEN Tail(t) ELSE t)
    IN  Signed(strip(s))

\* def parse_base(s, base)
parse_base(s, base) == int(strip(s), Radix(base))

\* bin(n), oct(n), hex(n): the sign, the prefix, the digits
WithPrefix(n, radix) ==
    (IF n < 0 THEN <<"-">> ELSE <<>>) \o <<"0", PrefixLetter(radix)>>
        \o DigitsIn(IF n < 0 THEN -n ELSE n, radix)

\* text[3:]
From3(text) == SubSeq(text, 4, Len(text))

\* text[2:]
From2(text) == SubSeq(text, 3, Len(text))

\* the branch on base_to
render_base(n, base_to) ==
    CASE base_to = "decimal"     -> StrOfInt(n)
      [] base_to = "binary"      -> From2(WithPrefix(n, 2))
      [] base_to = "octal"       -> From2(WithPrefix(n, 8))
      [] base_to = "hexadecimal" -> UpperText(From2(WithPrefix(n, 16)))

\* if st.button("Convert"): ...
NumberBases(h, base_from, input_text, base_to) ==
    LET Added(n, out, entry) ==
            Outcome(<<Success(input_text \o <<" (", base_from, ") ", "->", " ">>
                              \o out \o <<" (", base_to, ")">>)>>,
                    add_history(h, entry), <<entry>>, [n |-> n])
        Rendered(n, out) ==
            Added(n, out, [tool |-> <<"bases">>, from |-> <<base_from>>,
                           to |-> <<base_to>>, input |-> input_text,
                           output |-> out])
        Parsed(n) ==
            IF ~n.ok
            THEN Outcome(<<Error(<<"Invalid input for selected base.">>, "")>>,
                         h, <<>>, [n |-> n])
            ELSE Rendered(n, render_base(n.n, base_to))
    IN  Parsed(parse_base(input_text, base_from))

-----------------------------------------------------------------------------
(* Characters as code points, text as bytes                                *)

\* the characters of code 32..126, in order (the grave accent, code 96, is
\* written U+96)
Printable == <<
    " ", "!", "\"", "#", "$", "%", "&", "'", "(", ")", "*", "+",
    ",", "-", ".", "/", "0", "1", "2", "3", "4", "5", "6", "7",
    "8", "9", ":", ";", "<", "=", ">", "?", "@", "A", "B", "C",
    "D", "E", "F", "G", "H", "I", "J", "K", "L", "M", "N", "O",
    "P", "Q", "R", "S", "T", "U", "V", "W", "X", "Y", "Z", "[",
    "\\", "]", "^", "_", "U+96", "a", "b", "c", "d", "e", "f", "g",
    "h", "i", "j", "k", "l", "m", "n", "o", "p", "q", "r", "s",
    "t", "u", "v", "w", "x", "y", "z", "{", "|", "}", "~" >>

\* ord(ch), for a character of Printable
ord(ch) == 31 + (CHOOSE i \in 1..Len(Printable) : Printable[i] = ch)

\* chr(v): a printable ASCII character is itself; any other code point is
\* written U+<v>
chr(v) == IF v \in 32..126 THEN Printable[v - 31] ELSE "U+" \o ToString(v)

\* text.encode("utf8"), for text of Printable characters
Encode(text) == [i \in 1..Len(text) |-> ord(text[i])]

IsAscii(text) == \A i \in 1..Len(text) : text[i] \in Range(Printable) \/ IsSpace(text[i])

IsCont(b) == b \in 128..191

\* how many continuation bytes the lead byte b announces; -1: no lead byte
Need(b) ==
    CASE b < 128        -> 0
      [] b \in 194..223 -> 1
      [] b \in 224..239 -> 2
      [] b \in 240..244 -> 3
      [] OTHER          -> -1

\* the range the first continuation byte must lie in (overlong forms,
\* surrogates and code points above 0x10FFFF are refused)
SecondOk(lead, b) ==
    CASE lead = 224 -> b \in 160..191
      [] lead = 237 -> b \in 128..159
      [] lead = 240 -> b \in 144..191
      [] lead = 244 -> b \in 128..143
      [] OTHER      -> IsCont(b)

\* continuation bytes of the sequence starting at bytes[1] that are valid
RECURSIVE ValidPrefix(_, _, _)
ValidPrefix(bytes, i, need) ==
    IF i > need + 1 \/ i > Len(bytes) THEN i - 2
    ELSE IF (i = 2 /\ SecondOk(bytes[1], bytes[2])) \/ (i > 2 /\ IsCont(bytes[i]))
    THEN ValidPrefix(bytes, i + 1, need)
    ELSE i - 2

CodePoint(bytes, need) ==
    CASE need = 0 -> bytes[1]
      [] need = 1 -> (bytes[1] % 32) * 64 + (bytes[2] % 64)
      [] need = 2 -> (bytes[1] % 16) * 4096 + (bytes[2] % 64) * 64 + (bytes[3] % 64)
      [] need = 3 -> (bytes[1] % 8) * 262144 + (bytes[2] % 64) * 4096
                     + (bytes[3] % 64) * 64 + (bytes[4] % 64)

\* bytes.decode("utf8", errors): [ok, text]. errors = "strict" stops at the
\* first ill-formed sequence (UnicodeDecodeError); "replace" writes U+FFFD
\* for it and goes on.
RECURSIVE Decode(_, _)
Decode(bytes, errors) ==
    IF bytes = <<>> THEN [ok |-> TRUE, text |-> <<>>]
    ELSE LET need  == Need(bytes[1])
             have  == IF need < 0 THEN 0 ELSE ValidPrefix(bytes, 2, need)
             whole == need >= 0 /\ have = need
             used  == 1 + have
             rest  == Decode(SubSeq(bytes, used + 1, Len(bytes)), errors)
         IN  IF whole
             THEN [ok |-> rest.ok, text |-> <<chr(CodePoint(bytes, need))>> \o rest.text]
             ELSE IF errors = "replace"
             THEN [ok |-> rest.ok, text |-> <<chr(65533)>> \o rest.text]
             ELSE [ok |-> FALSE, text |-> <<>>]

HexUpper(b) == <<Upper(BaseDigits[(b \div 16) + 1]), Upper(BaseDigits[(b % 16) + 1])>>

RECURSIVE Flatten(_)
Flatten(ss) == IF ss = <<>> THEN <<>> ELSE ss[1] \o Flatten(Tail(ss))

-----------------------------------------------------------------------------
(* Tool: ASCII / Unicode                                                   *)

\* elif sub == "Char -> codes": runs on every script run, no button
CharToCodes(h, s) ==
    LET ch    == s[1]
        entry == [tool |-> <<"ascii_char">>, char |-> <<ch>>, dec |-> ord(ch)]
    IN  IF s = <<>> THEN Outcome(<<>>, h, <<>>, [v |-> 0])
        ELSE Outcome(<<Shown(<<"Character:", ch>>),
                       Shown(<<"Dec:">> \o StrOfNat(ord(ch))),
                       Shown(<<"Hex:">> \o UpperText(From2(WithPrefix(ord(ch), 16)))),
                       Shown(<<"Oct:">> \o From2(WithPrefix(ord(ch), 8))),
                       Shown(<<"Bin:">> \o From2(WithPrefix(ord(ch), 2)))>>,
                     add_history(h, entry), <<entry>>, [v |-> ord(ch)])

\* 0x10FFFF
MaxCodePoint == 1114111

\* else: "Code -> Char (Unicode)": runs on every script run, no button
CodeToChar(h, n) ==
    LET Added(entry) ==
            Outcome(<<Shown(<<"Char:">> \o entry.char)>>, add_history(h, entry),
                    <<entry>>, [v |-> entry.code])
        Looked(v) ==
            IF ~v.ok
            THEN Outcome(<<Error(<<"Invalid integer code point.">>, "ValueError")>>,
                         h, <<>>, [v |-> 0])
            ELSE IF 0 <= v.n /\ v.n <= MaxCodePoint
            THEN Added([tool |-> <<"ascii_code">>, code |-> v.n,
                        char |-> <<chr(v.n)>>])
            ELSE Outcome(<<Error(<<"Out of Unicode range.">>, "")>>, h, <<>>,
                         [v |-> v.n])
    IN  Looked(int(n, 10))

-----------------------------------------------------------------------------
(* Tool: Encodings & Hashes                                                *)

Base64Alphabet == <<
    "A", "B", "C", "D", "E", "F", "G", "H", "I", "J", "K", "L", "M",
    "N", "O", "P", "Q", "R", "S", "T", "U", "V", "W", "X", "Y", "Z",
    "a", "b", "c", "d", "e", "f", "g", "h", "i", "j", "k", "l", "m",
    "n", "o", "p", "q", "r", "s", "t", "u", "v", "w", "x", "y", "z",
    "0", "1", "2", "3", "4", "5", "6", "7", "8", "9", "+", "/" >>

Sextet(c) == (CHOOSE i \in 1..64 : Base64Alphabet[i] = c) - 1

\* base64.b64encode(bytes).decode("ascii")
RECURSIVE b64encode(_)
b64encode(bytes) ==
    LET a == bytes[1]
        b == IF Len(bytes) >= 2 THEN bytes[2] ELSE 0
        c == IF Len(bytes) >= 3 THEN bytes[3] ELSE 0
        A(i) == Base64Alphabet[i + 1]
    IN  IF bytes = <<>> THEN <<>>
        ELSE <<A(a \div 4), A((a % 4) * 16 + b \div 16)>>
             \o (IF Len(bytes) >= 2 THEN <<A((b % 16) * 4 + c \div 64)>> ELSE <<"=">>)
             \o (IF Len(bytes) >= 3 THEN <<A(c % 64)>> ELSE <<"=">>)
             \o b64encode(SubSeq(bytes, 4, Len(bytes)))

\* binascii.a2b_base64 without strict mode: characters outside the alphabet
\* are skipped, padding that completes a quad ends the data, an unfinished
\* quad raises. st is [quad_pos, leftchar, pads, out].
RECURSIVE a2b_base64(_, _)
a2b_base64(text, st) ==
    IF text = <<>>
    THEN [ok |-> st.quad_pos = 0, bytes |-> st.out]
    ELSE LET c    == text[1]
             rest == Tail(text)
             v    == Sextet(c)
         IN  IF c = "="
             THEN IF st.quad_pos >= 2 /\ st.quad_pos + st.pads + 1 >= 4
                  THEN [ok |-> TRUE, bytes |-> st.out]
                  ELSE a2b_base64(rest, IF st.quad_pos >= 2
                                        THEN [st EXCEPT !.pads = st.pads + 1]
                                        ELSE st)
             ELSE IF c \notin Range(Base64Alphabet) THEN a2b_base64(rest, st)
             ELSE a2b_base64(rest,
                    CASE st.quad_pos = 0 ->
                           [quad_pos |-> 1, leftchar |-> v, pads |-> 0, out |-> st.out]
                      [] st.quad_pos = 1 ->
                           [quad_pos |-> 2, leftchar |-> v % 16, pads |-> 0,
                            out |-> Append(st.out, st.leftchar * 4 + v \div 16)]
                      [] st.quad_pos = 2 ->
                           [quad_pos |-> 3, leftchar |-> v % 4, pads |-> 0,
                            out |-> Append(st.out, st.leftchar * 16 + v \div 4)]
                      [] st.quad_pos = 3 ->
                           [quad_pos |-> 0, leftchar |-> 0, pads |-> 0,
                            out |-> Append(st.out, st.leftchar * 64 + v)])

\* base64.b64decode(txt): a str must be ASCII
b64decode(txt) ==
    IF ~IsAscii(txt) THEN [ok |-> FALSE, bytes |-> <<>>]
    ELSE a2b_base64(txt, [quad_pos |-> 0, leftchar |-> 0, pads |-> 0, out |-> <<>>])

\* if st.button("Encode Base64")
EncodeBase64(h, txt) ==
    LET out   == b64encode(Encode(txt))
        entry == [tool |-> <<"base64">>, mode |-> <<"enc">>, in |-> txt, out |-> out]
    IN  Outcome(<<Shown(out)>>, add_history(h, entry), <<entry>>, [out |-> out])

\* if st.button("Decode Base64")
DecodeBase64(h, txt) ==
    LET raw   == b64decode(txt)
        dec   == IF raw.ok THEN Decode(raw.bytes, "strict")
                 ELSE [ok |-> FALSE, text |-> <<>>]
        entry == [tool |-> <<"base64">>, mode |-> <<"dec">>, in |-> txt,
                  out |-> dec.text]
    IN  IF dec.ok
        THEN Outcome(<<Shown(dec.text)>>, add_history(h, entry), <<entry>>,
                     [out |-> dec.text])
        ELSE Outcome(<<Error(<<"Invalid Base64 input.">>,
                             IF raw.ok THEN "UnicodeDecodeError" ELSE "binascii.Error")>>,
                     h, <<>>, [out |-> <<>>])

Unreserved(c) ==
    c \in Range(LowerCase) \cup Range(UpperCase) \cup Range(Digits) \cup {"_", ".", "-", "~"}

\* urllib.parse.quote(txt, safe="")
quote(txt) ==
    Flatten([i \in 1..Len(txt) |->
                IF Unreserved(txt[i]) THEN <<txt[i]>>
                ELSE <<"%">> \o HexUpper(ord(txt[i]))])

\* urllib.parse.unquote_to_bytes: %XX with two hex digits is one byte
RECURSIVE unquote_to_bytes(_)
unquote_to_bytes(txt) ==
    IF txt = <<>> THEN <<>>
    ELSE IF /\ txt[1] = "%" /\ Len(txt) >= 3
            /\ IsDigitOf(txt[2], 16) /\ IsDigitOf(txt[3], 16)
    THEN <<16 * ValueOf(txt[2]) + ValueOf(txt[3])>>
         \o unquote_to_bytes(SubSeq(txt, 4, Len(txt)))
    ELSE <<ord(txt[1])>> \o unquote_to_bytes(Tail(txt))

\* urllib.parse.unquote(txt)
unquote(txt) == Decode(unquote_to_bytes(txt), "replace").text

\* if st.button("URL Encode")
URLEncode(h, txt) ==
    LET out   == quote(txt)
        entry == [tool |-> <<"url">>, mode |-> <<"enc">>, in |-> txt, out |-> out]
    IN  Outcome(<<Shown(out)>>, add_history(h, entry), <<entry>>, [out |-> out])

\* if st.button("URL Decode")
URLDecode(h, txt) ==
    LET out   == unquote(txt)
        entry == [tool |-> <<"url">>, mode |-> <<"dec">>, in |-> txt, out |-> out]
    IN  Outcome(<<Shown(out)>>, add_history(h, entry), <<entry>>, [out |-> out])

\* hashlib.new(algo, data).hexdigest(): the digest is not computed; it is
\* written as the algorithm applied to the text
hexdigest(algo, text) == <<algo, "(">> \o text \o <<")">>

\* if st.button("Hash Text")
HashText(h, algo, text) ==
    LET out   == hexdigest(algo, text)
        entry == [tool |-> <<"hash_text">>, algo |-> <<algo>>, in |-> text, out |-> out]
    IN  Outcome(<<Shown(out)>>, add_history(h, entry), <<entry>>, [out |-> out])

\* if f is not None and st.button("Compute file hash")
HashFile(h, algo, filename, data) ==
    LET out   == hexdigest(algo, data)
        entry == [tool |-> <<"hash_file">>, filename |-> filename,
                  algo |-> <<algo>>, out |-> out]
    IN  Outcome(<<Shown(out)>>, add_history(h, entry), <<entry>>, [out |-> out])

\* binascii.hexlify(bytes).decode("ascii").upper()
hexlify(bytes) == Flatten([i \in 1..Len(bytes) |-> HexUpper(bytes[i])])

\* binascii.unhexlify(s): an even number of hexadecimal digits
RECURSIVE HexPairs(_)
HexPairs(s) ==
    IF s = <<>> THEN <<>>
    ELSE <<16 * ValueOf(s[1]) + ValueOf(s[2])>> \o HexPairs(SubSeq(s, 3, Len(s)))

unhexlify(s) ==
    IF Len(s) % 2 = 0 /\ \A i \in 1..Len(s) : IsDigitOf(s[i], 16)
    THEN [ok |-> TRUE, bytes |-> HexPairs(s)]
    ELSE [ok |-> FALSE, bytes |-> <<>>]

\* if st.button("To Hex")
ToHex(h, s) ==
    LET hx    == hexlify(Encode(s))
        entry == [tool |-> <<"tx2hex">>, in |-> s, out |-> hx]
    IN  Outcome(<<Shown(hx)>>, add_history(h, entry), <<entry>>, [out |-> hx])

\* a From Hex that records the attempt although it failed
FromHexRecorded(h, s) ==
    Outcome(<<Error(<<"Invalid hex input.">>, "binascii.Error")>>,
            add_history(h, [tool |-> <<"hex2tx">>, in |-> s, out |-> <<>>]),
            <<>>, [out |-> <<>>])

\* if st.button("From Hex")
FromHex(h, s) ==
    LET raw   == unhexlify(s)
        dec   == IF raw.ok THEN Decode(raw.bytes, "strict")
                 ELSE [ok |-> FALSE, text |-> <<>>]
        entry == [tool |-> <<"hex2tx">>, in |-> s, out |-> dec.text]
    IN  IF dec.ok
        THEN Outcome(<<Shown(dec.text)>>, add_history(h, entry), <<entry>>,
                     [out |-> dec.text])
        ELSE Outcome(<<Error(<<"Invalid hex input.">>,
                             IF raw.ok THEN "UnicodeDecodeError" ELSE "binascii.Error")>>,
                     h, <<>>, [out |-> <<>>])

\* format(b, '08b')
Bits8(b) == [i \in 1..8 |-> Digits[((b \div (2 ^ (8 - i))) % 2) + 1]]

\* if st.button("To Bin")
ToBin(h, s) ==
    LET bx    == Flatten([i \in 1..Len(s) |-> Bits8(ord(s[i]))])
        entry == [tool |-> <<"tx2bin">>, in |-> s, out |-> bx]
    IN  Outcome(<<Shown(bx)>>, add_history(h, entry), <<entry>>, [out |-> bx])

-----------------------------------------------------------------------------
(* Global: Session History viewer / download                               *)

\* rows of st.dataframe(df.head(200))
HeadRows == 200

\* the field names the tools write, in one fixed order
FieldNames == <<"tool", "category", "from", "to", "value", "result", "input",
                "output", "char", "dec", "code", "mode", "in", "out", "algo",
                "filename">>

\* the fields whose values are ints
IntFields == {"dec", "code"}

\* the seq turned by k places
Rotate(q, k) ==
    IF q = <<>> THEN q
    ELSE [i \in 1..Len(q) |-> q[((i - 1 + k) % Len(q)) + 1]]

Reverse(q) == [i \in 1..Len(q) |-> q[Len(q) + 1 - i]]

\* keys = set(); keys.update(row.keys()) for every row; keys = list(keys).
\* The order of a set's elements is the interpreter's: seed picks one of the
\* orders the model tries (a turn of the fixed order, read either way).
KeyList(h, seed) ==
    LET keys  == UNION {DOMAIN h[i] : i \in 1..Len(h)}
        fixed == SelectSeq(FieldNames, LAMBDA k : k \in keys)
        moved == Rotate(fixed, seed \div 2)
    IN  IF seed % 2 = 0 THEN moved ELSE Reverse(moved)

\* csv.writer writes str(value) for a value that is no string
Cell(k, value) == IF k \in IntFields THEN StrOfInt(value) ELSE value

\* a row written in the fixed order of its own fields, not in the header's
CsvRowOwnOrder(row, keys) ==
    [j \in 1..Len(keys) |->
        IF j <= Len(SelectSeq(FieldNames, LAMBDA k : k \in DOMAIN row))
        THEN Cell(SelectSeq(FieldNames, LAMBDA k : k \in DOMAIN row)[j],
                  row[SelectSeq(FieldNames, LAMBDA k : k \in DOMAIN row)[j]])
        ELSE <<>>]

\* writer.writerow([row.get(k, "") for k in keys])
CsvRow(row, keys) ==
    [j \in 1..Len(keys) |->
        IF keys[j] \in DOMAIN row THEN Cell(keys[j], row[keys[j]]) ELSE <<>>]

\* writer.writerow(keys), then a row for every entry
CsvTable(h, seed) ==
    LET keys == KeyList(h, seed)
    IN  [header |-> keys, rows |-> [i \in 1..Len(h) |-> CsvRow(h[i], keys)]]

\* csv.writer quotes a field that holds the delimiter, a quote or a line
\* break, doubling the quotes in it
NeedsQuotes(c) == \E i \in 1..Len(c) : c[i] \in {",", "\"", "\n", "\r"}

QuoteField(c) ==
    IF NeedsQuotes(c)
    THEN <<"\"">> \o Flatten([i \in 1..Len(c) |->
                      IF c[i] = "\"" THEN <<"\"", "\"">> ELSE <<c[i]>>]) \o <<"\"">>
    ELSE c

\* writer.writerow(cells): the fields, commas between them, "\r\n" after
writerow(cells) ==
    Flatten([j \in 1..Len(cells) |->
                (IF j = 1 THEN <<>> ELSE <<",">>) \o QuoteField(cells[j])])
        \o <<"\r", "\n">>

\* csv_buf.getvalue()
getvalue(h, seed) ==
    LET t == CsvTable(h, seed)
    IN  writerow([j \in 1..Len(t.header) |-> <<t.header[j]>>])
            \o Flatten([i \in 1..Len(t.rows) |-> writerow(t.rows[i])])

\* if "show_history" in st.session_state and ...: the section rendered
SessionHistory(show, h, seed) ==
    IF show /\ h # <<>>
    THEN [shown |-> TRUE, info |-> "",
          table |-> SubSeq(h, 1, Min(Len(h), HeadRows)), json |-> h,
          csv |-> getvalue(h, seed)]
    ELSE [shown |-> show, info |-> IF show THEN "No history yet." ELSE "",
          table |-> <<>>, json |-> <<>>, csv |-> <<>>]

-----------------------------------------------------------------------------
(* One run of the script                                                   *)

UnitTool  == "Unit Converter"
BasesTool == "Number Bases (bin/oct/dec/hex)"
AsciiTool == "ASCII / Unicode"
EncTool   == "Encodings & Hashes"
AboutTool == "About & Suggest"

Tools == {UnitTool, BasesTool, AsciiTool, EncTool, AboutTool}

AsciiTable == "ASCII table (0-127)"
CharMode   == "Char -> codes"
CodeMode   == "Code -> Char (Unicode)"

Modes == {AsciiTable, CharMode, CodeMode}

\* the default of st.text_input("Enter Unicode code point (decimal)", "65")
DefaultCode == <<"6", "5">>

EncModes == {"Base64", "URL Encode/Decode", "Hashes (text/file)", "Text <-> Hex/Bin"}

\* the radio a tool shows first (sub holds the radio of the selected tool)
DefaultSub(t) ==
    CASE t = AsciiTool -> AsciiTable
      [] t = EncTool   -> "Base64"
      [] OTHER         -> ""

\* the sub-tool a button of Encodings & Hashes belongs to
EncModeOf(button) ==
    CASE button \in {"Encode Base64", "Decode Base64"} -> "Base64"
      [] button \in {"URL Encode", "URL Decode"}       -> "URL Encode/Decode"
      [] button \in {"Hash Text", "Compute file hash"} -> "Hashes (text/file)"
      [] OTHER                                         -> "Text <-> Hex/Bin"

OpenHistory == "Open Session History (download)"

NoArgs == [none |-> TRUE]

Nothing(h) == Outcome(<<>>, h, <<>>, [none |-> TRUE])

EncButtons == {"Encode Base64", "Decode Base64", "URL Encode", "URL Decode",
               "Hash Text", "Compute file hash", "To Hex", "From Hex", "To Bin"}

\* the branch of Encodings & Hashes whose button was pressed
EncodingButton(h, button, a) ==
    CASE button = "Encode Base64"     -> EncodeBase64(h, a.txt)
      [] button = "Decode Base64"     -> DecodeBase64(h, a.txt)
      [] button = "URL Encode"        -> URLEncode(h, a.txt)
      [] button = "URL Decode"        -> URLDecode(h, a.txt)
      [] button = "Hash Text"         -> HashText(h, a.algo, a.txt)
      [] button = "Compute file hash" -> HashFile(h, a.algo, a.filename, a.txt)
      [] button = "To Hex"            -> ToHex(h, a.txt)
      [] button = "From Hex"          -> FromHex(h, a.txt)
      [] button = "To Bin"            -> ToBin(h, a.txt)

\* the if / elif chain on tool: the handler the run executes
Handler(reg, h, t, sb, s, n, button, a) ==
    CASE t = UnitTool ->
           IF button = "Convert"
           THEN UnitConverter(reg, h, a.cat, a.from_unit, a.to_unit, a.raw_text, a.prec)
           ELSE Nothing(h)
      [] t = BasesTool ->
           IF button = "Convert"
           THEN NumberBases(h, a.base_from, a.input_text, a.base_to)
           ELSE Nothing(h)
      [] t = AsciiTool ->
           IF sb = AsciiTable THEN Nothing(h)
           ELSE IF sb = CharMode THEN CharToCodes(h, s)
           ELSE CodeToChar(h, n)
      [] t = EncTool ->
           IF button \in EncButtons /\ sb = EncModeOf(button)
           THEN EncodingButton(h, button, a)
           ELSE Nothing(h)
      [] t = AboutTool -> Nothing(h)

\* the orders of the key set a run may meet
HashSeeds == 4

OrdersTried(show, h) == IF show /\ h # <<>> THEN 0..(HashSeeds - 1) ELSE {0}

\* the script from top to bottom: widgets t, sb, s, n as the user left them,
\* the pressed button (if any) with the values of its form
ScriptRun(t, sb, s, n, button, a) ==
    LET Ran(o, show) ==
            /\ tool' = t
            /\ sub' = sb
            /\ chars' = s
            /\ code' = n
            /\ history' = o.hist
            /\ nops' = nops + Len(o.added)
            /\ run' = [tool |-> t, button |-> button, args |-> a, msgs |-> o.msgs,
                       added |-> o.added, locals |-> o.locals]
            /\ show_history' = show
            /\ \E seed \in OrdersTried(show, o.hist) :
                   viewer' = SessionHistory(show, o.hist, seed)
            /\ UNCHANGED <<ureg, fmt>>
    IN  Ran(Handler(ureg, history, t, sb, s, n, button, a),
            show_history \/ button = OpenHistory)

-----------------------------------------------------------------------------
(* The session: what the user does, each step one run of the script        *)

\* ureg = UnitRegistry() and the loop over EXTRA_DEFS; history = []; the
\* widgets at their defaults; nothing run yet
Init ==
    /\ ureg = Registry
    /\ history = <<>>
    /\ show_history = FALSE
    /\ tool = UnitTool
    /\ sub = DefaultSub(UnitTool)
    /\ chars = <<>>
    /\ code = DefaultCode
    /\ run = [tool |-> UnitTool, button |-> "", args |-> NoArgs, msgs |-> <<>>,
              added |-> <<>>, locals |-> [none |-> TRUE]]
    /\ viewer = SessionHistory(FALSE, <<>>, 0)
    /\ nops = 0
    /\ fmt = [called |-> FALSE, value |-> None, precision |-> 0, out |-> <<>>]

\* tool = st.sidebar.radio("Tool", ...): another tool's widgets start over
SelectTool(ts, max) ==
    /\ nops < max
    /\ \E t \in ts :
          /\ t # tool
          /\ ScriptRun(t, DefaultSub(t), <<>>, DefaultCode, "", NoArgs)

\* sub = st.radio("Mode", ...) of ASCII / Unicode, enc_sel = st.radio("Choose", ...)
SelectMode(ms, max) ==
    /\ nops < max
    /\ tool \in {AsciiTool, EncTool}
    /\ \E m \in ms :
          /\ m # sub
          /\ m \in (IF tool = AsciiTool THEN Modes ELSE EncModes)
          /\ ScriptRun(tool, m, <<>>, DefaultCode, "", NoArgs)

\* ch = st.text_input("Enter character(s)")
TypeChars(ss, max) ==
    /\ nops < max
    /\ tool = AsciiTool /\ sub = CharMode
    /\ \E s \in ss : s # chars /\ ScriptRun(tool, sub, s, code, "", NoArgs)

\* n = st.text_input("Enter Unicode code point (decimal)", "65")
TypeCode(ns, max) ==
    /\ nops < max
    /\ tool = AsciiTool /\ sub = CodeMode
    /\ \E n \in ns : n # code /\ ScriptRun(tool, sub, chars, n, "", NoArgs)

MinPrecision == 3
MaxPrecision == 60

\* the forms the Unit Converter lets the user submit
UnitForm(a) ==
    /\ a.cat \in DOMAIN CATEGORIES
    /\ a.from_unit \in Range(CATEGORIES[a.cat])
    /\ a.to_unit \in Range(CATEGORIES[a.cat])
    /\ a.prec \in MinPrecision..MaxPrecision

\* convert_btn = st.button("Convert") of the Unit Converter
ClickConvert(forms, max) ==
    /\ nops < max
    /\ tool = UnitTool
    /\ \E a \in forms :
          UnitForm(a) /\ ScriptRun(tool, sub, chars, code, "Convert", a)

Bases == {"binary", "octal", "decimal", "hexadecimal"}

\* st.button("Convert") of Number Bases
ClickConvertBase(forms, max) ==
    /\ nops < max
    /\ tool = BasesTool
    /\ \E a \in forms :
          /\ a.base_from \in Bases /\ a.base_to \in Bases
          /\ ScriptRun(tool, sub, chars, code, "Convert", a)

Algorithms == {"md5", "sha1", "sha256", "sha512"}

\* a button of Encodings & Hashes, shown under its sub-tool
ClickEncoding(button, forms, max) ==
    /\ nops < max
    /\ tool = EncTool /\ sub = EncModeOf(button)
    /\ \E a \in forms : ScriptRun(tool, sub, chars, code, button, a)

\* st.sidebar.button("Open Session History (download)")
ClickOpenHistory(max) ==
    /\ nops < max
    /\ ScriptRun(tool, sub, chars, code, OpenHistory, NoArgs)

-----------------------------------------------------------------------------
(* A session over all tools                                                *)

\* operations of one session
MaxOps == 2

UnitSamples ==
    { [cat |-> "Length", from_unit |-> "meter", to_unit |-> "kilometer",
       raw_text |-> <<"1", "5", "0", "0">>, prec |-> 3],
      [cat |-> "Energy & Power", from_unit |-> "joule", to_unit |-> "watt",
       raw_text |-> <<"1">>, prec |-> 8],
      [cat |-> "Length", from_unit |-> "meter", to_unit |-> "meter",
       raw_text |-> <<"a", "b", "c">>, prec |-> 8] }

BaseSamples ==
    { [base_from |-> "decimal", input_text |-> <<"1", "0">>, base_to |-> "binary"],
      [base_from |-> "binary", input_text |-> <<"1", "2">>, base_to |-> "decimal"] }

CharSamples == { <<>>, <<"A">> }

CodeSamples == { DefaultCode, <<"x">>, <<"1", "1", "1", "4", "1", "1", "2">> }

Txt(t) == [txt |-> t]

Next ==
    \/ SelectTool(Tools, MaxOps)
    \/ SelectMode(Modes \cup EncModes, MaxOps)
    \/ TypeChars(CharSamples, MaxOps)
    \/ TypeCode(CodeSamples, MaxOps)
    \/ ClickConvert(UnitSamples, MaxOps)
    \/ ClickConvertBase(BaseSamples, MaxOps)
    \/ ClickEncoding("Encode Base64", {Txt(<<"h", "i">>)}, MaxOps)
    \/ ClickEncoding("Decode Base64", {Txt(<<"a", "G", "k", "=">>), Txt(<<"a", "G", "k">>)}, MaxOps)
    \/ ClickEncoding("URL Encode", {Txt(<<"a", ",", "b">>)}, MaxOps)
    \/ ClickEncoding("URL Decode", {Txt(<<"a", "%", "2", "0", "b">>)}, MaxOps)
    \/ ClickEncoding("Hash Text", {[algo |-> "md5", txt |-> <<"h", "i">>]}, MaxOps)
    \/ ClickEncoding("Compute file hash",
                     {[algo |-> "sha1", filename |-> <<"f", ".", "t", "x", "t">>, txt |-> <<"h", "i">>]}, MaxOps)
    \/ ClickEncoding("To Hex", {Txt(<<"h", "i">>)}, MaxOps)
    \/ ClickEncoding("From Hex", {Txt(<<"6", "8", "6", "9">>), Txt(<<"z", "z">>)}, MaxOps)
    \/ ClickEncoding("To Bin", {Txt(<<"A">>)}, MaxOps)
    \/ ClickOpenHistory(MaxOps)

Spec == Init /\ [][Next]_vars

-----------------------------------------------------------------------------
(* A session of the Unit Converter                                         *)

\* conversions of one Unit Converter session
MaxUnitOps == 1

\* category, from unit, to unit
UnitPairs ==
    { <<"Length", "meter", "meter">>,
      <<"Length", "meter", "kilometer">>,
      <<"Length", "inch", "foot">>,
      <<"Area", "meter**2", "hectare">>,
      <<"Volume", "gallon_us", "liter">>,
      <<"Mass", "pound", "kilogram">>,
      <<"Temperature", "degC", "kelvin">>,
      <<"Temperature", "degF", "degC">>,
      <<"Temperature", "kelvin", "kelvin">>,
      <<"Speed", "kilometer/hour", "mile_per_hour">>,
      <<"Pressure", "psi", "pascal">>,
      <<"Energy & Power", "joule", "watt">>,
      <<"Energy & Power", "watt", "kilowatt_hour">>,
      <<"Energy & Power", "joule", "calorie">>,
      <<"Energy & Power", "watt", "watt">>,
      <<"Fuel economy", "liter_per_100_kilometer", "mile_per_gallon_us">>,
      <<"Fuel economy", "mile_per_gallon_us", "liter_per_100_kilometer">>,
      <<"Fuel economy", "mile_per_gallon_us", "mile_per_gallon_imp">>,
      <<"Fuel economy", "liter_per_100_kilometer", "liter_per_100_kilometer">>,
      <<"Fuel economy", "liter_per_100_kilometer", "mile_per_gallon_imp">>,
      <<"Digital storage", "MiB", "MB">>,
      <<"Digital storage", "byte", "byte">>,
      <<"Digital storage", "bit", "byte">>,
      <<"Angle", "degree", "radian">> }

UnitTexts ==
    { <<"1">>,
      <<"8", ".", "5">>,
      <<"-", "4", "0">>,
      <<"1", "e", "3">>,
      <<" ", "7", " ">>,
      <<"0", ".", "0", "0", "0", "5">>,
      <<"a", "b", "c">>,
      <<>>,
      <<"1", ".", "5", ".", "2">>,
      <<"N", "a", "N">>,
      <<"I", "n", "f", "i", "n", "i", "t", "y">>,
      <<"1", "_", "0">>,
      <<"9", "0", "0", "7", "1", "9", "9", "2", "5", "4", "7", "4", "0", "9", "9", "3">>,
      <<"1", "E", "+", "1", "9", "7">> }

\* the pairs each value text is tried on
ValuePairs ==
    { <<"Length", "meter", "meter">>, <<"Length", "meter", "kilometer">>,
      <<"Temperature", "degF", "degC">>, <<"Energy & Power", "joule", "watt">>,
      <<"Fuel economy", "mile_per_gallon_us", "liter_per_100_kilometer">> }

FormOf(q, t) ==
    [cat |-> q[1], from_unit |-> q[2], to_unit |-> q[3], raw_text |-> t,
     prec |-> 8]

UnitForms ==
    { FormOf(q, t) : q \in UnitPairs, t \in {<<"1">>, <<"8", ".", "5">>} }
    \cup { FormOf(q, t) : q \in ValuePairs, t \in UnitTexts }

NextUnit == ClickConvert(UnitForms, MaxUnitOps)

SpecUnit == Init /\ [][NextUnit]_vars

-----------------------------------------------------------------------------
(* A session of Number Bases: a number converted, the output converted back *)

\* conversions of one Number Bases session
MaxBaseOps == 2

\* the numbers whose renderings are typed in
MaxN == 40

BaseTexts ==
    { <<"-", "5">>,
      <<"+", "7">>,
      <<"0", "x", "1", "F">>,
      <<"0", "b", "1", "0", "1">>,
      <<"1", "_", "0">>,
      <<" ", "4", "2", " ">>,
      <<"z", "z">>,
      <<>>,
      <<"1", "2", "a">>,
      <<"7", ".", "5">> }

BaseForms ==
    { [base_from |-> b1, input_text |-> render_base(n, b1), base_to |-> b2] :
          b1 \in Bases, n \in 0..MaxN, b2 \in Bases }
    \cup { [base_from |-> b1, input_text |-> t, base_to |-> b2] :
          b1 \in Bases, t \in BaseTexts, b2 \in Bases }

\* the form that converts the newest output back to the base it came from
BackForm == [base_from |-> history[1].to[1], input_text |-> history[1].output,
             base_to |-> history[1].from[1]]

FirstConversion == history = <<>> /\ ClickConvertBase(BaseForms, MaxBaseOps)

ConvertBack == history # <<>> /\ ClickConvertBase({BackForm}, MaxBaseOps)

NextBases ==
    \/ SelectTool({BasesTool}, MaxBaseOps)
    \/ FirstConversion
    \/ ConvertBack

SpecBases == Init /\ [][NextBases]_vars

-----------------------------------------------------------------------------
(* A long session: the number of conversions done so far, converted        *)

\* operations of the long session
MaxSessionOps == 502

\* the form of operation number nops + 1, and a form that is refused
CountingForms ==
    { [base_from |-> "decimal", input_text |-> StrOfNat(nops), base_to |-> "binary"],
      [base_from |-> "decimal", input_text |-> <<"z", "z">>, base_to |-> "binary"] }

NextHistory ==
    \/ SelectTool({BasesTool}, MaxSessionOps)
    \/ ClickConvertBase(CountingForms, MaxSessionOps)

SpecHistory == Init /\ [][NextHistory]_vars

-----------------------------------------------------------------------------
(* format_result called on its own                                         *)

FormatCoefs ==
    { <<0>>, <<1>>, <<5>>, <<1, 5>>, <<2, 5>>, <<1, 0, 0>>, <<2, 0, 0, 0>>,
      <<1, 1, 0, 0, 0, 0, 0>>, <<9, 9, 9, 6>>, <<9, 9, 9, 9, 5>> }

FormatExps == {-6, -4, -3, -1, 0, 2, 196, 197}

FormatValues ==
    { Dec("finite", sg, c, e) : sg \in {0, 1}, c \in FormatCoefs, e \in FormatExps }

Precisions == {MinPrecision, 8, MaxPrecision}

\* formatted = format_result(value, precision)
FormatCall ==
    /\ \E value \in FormatValues, precision \in Precisions :
          fmt' = [called |-> TRUE, value |-> value, precision |-> precision,
                  out |-> format_result(value, precision)]
    /\ UNCHANGED <<ureg, history, show_history, tool, sub, chars, code, run,
                   viewer, nops>>

SpecFormat == Init /\ [][FormatCall]_vars

-----------------------------------------------------------------------------
(* Properties                                                              *)

HasError(msgs) == \E i \in 1..Len(msgs) : msgs[i].kind = "error"

\* C1: after n successful operations the history holds exactly min(n, 500)
\* entries, newest first, and they are the min(n, 500) most recent operations
\* (operation number i of the long session converts the decimal text of
\* i - 1, so entry k must be the one of operation n - k + 1); the length
\* never exceeds 500.
HistoryHoldsMostRecent ==
    /\ Len(history) = Min(nops, HistoryCap)
    /\ Len(history) <= HistoryCap
    /\ \A k \in 1..Len(history) :
          /\ history[k].input = StrOfNat(nops - k)
          /\ history[k].output = DigitsIn(nops - k, 2)

\* C1: 501 operations done: 500 entries remain, the newest first, the entry
\* of the first operation (input "0") gone and the second one now the oldest
FirstEntryEvicted ==
    /\ nops = HistoryCap + 1
    /\ Len(history) = HistoryCap
    /\ history[1].input = StrOfNat(HistoryCap)
    /\ history[HistoryCap].input = <<"1">>
    /\ \A k \in 1..Len(history) : history[k].input # <<"0">>

\* C2: a run of any tool that ends in an error message leaves the history
\* list and the unit registry as they were and appends no entry; the error is
\* a message of the run.
ErrorsLeaveHistory ==
    [][HasError(run'.msgs) =>
          /\ history' = history
          /\ ureg' = ureg
          /\ run'.added = <<>>]_vars

\* C2: From Hex refused its input while the history held an entry
HexErrorWithHistory ==
    /\ run.button = "From Hex"
    /\ run.msgs = <<Error(<<"Invalid hex input.">>, "binascii.Error")>>
    /\ history # <<>>

DimensionMismatch(a) ==
    Dimensionality(ureg, ParseUnits(a.from_unit))
        # Dimensionality(ureg, ParseUnits(a.to_unit))

IsUnitRun(r) == r.tool = UnitTool /\ r.button = "Convert"

\* C3: a conversion between units of different dimensions never yields a
\* value or a history entry; when the value is a number the error shown is
\* the dimensionality error.
MismatchedUnitsFail ==
    [][(IsUnitRun(run') /\ DimensionMismatch(run'.args)) =>
          /\ history' = history
          /\ run'.added = <<>>
          /\ run'.locals.magnitude = None
          /\ HasError(run'.msgs)
          /\ (run'.locals.dec_val.kind = "finite" =>
                 run'.msgs = <<Error(<<"Conversion error: ">>,
                                     "DimensionalityError")>>)]_vars

\* C3: 8.5 joule to watt was refused with the dimensionality error
JouleToWattRefused ==
    /\ IsUnitRun(run)
    /\ run.args.from_unit = "joule" /\ run.args.to_unit = "watt"
    /\ run.args.raw_text = <<"8", ".", "5">>
    /\ run.msgs = <<Error(<<"Conversion error: ">>, "DimensionalityError")>>
    /\ history = <<>>

\* digits with an optional sign, an optional decimal point and an optional
\* exponent (blanks around it allowed)
IsDecimalNumeral(text) ==
    LET t    == strip(text)
        body == IF t # <<>> /\ t[1] \in {"+", "-"} THEN Tail(t) ELSE t
        epos == Find(LowerText(body), "e")
        mant == IF epos = 0 THEN body ELSE SubSeq(body, 1, epos - 1)
        expt == IF epos = 0 THEN <<>> ELSE SubSeq(body, epos + 1, Len(body))
        dpos == Find(mant, ".")
        ip   == IF dpos = 0 THEN mant ELSE SubSeq(mant, 1, dpos - 1)
        fp   == IF dpos = 0 THEN <<>> ELSE SubSeq(mant, dpos + 1, Len(mant))
    IN  /\ AllDigits(ip) /\ AllDigits(fp)
        /\ (ip # <<>> \/ fp # <<>>)
        /\ (epos = 0 \/ IsSignedInt(expt))

\* C4: a value text that is no decimal numeral is refused as invalid numeric
\* input with no history entry, and only finite numbers reach the conversion.
OnlyNumeralsConverted ==
    IsUnitRun(run) =>
        /\ ~IsDecimalNumeral(run.args.raw_text) =>
              /\ run.msgs = <<Error(<<"Invalid numeric input.">>, "")>>
              /\ run.added = <<>>
        /\ run.locals.dec_val.kind \in {"None", "finite"}

\* C4: the text NaN was converted and entered into the history
NaNConverted ==
    /\ IsUnitRun(run)
    /\ run.args.raw_text = <<"N", "a", "N">>
    /\ run.args.from_unit = "meter" /\ run.args.to_unit = "kilometer"
    /\ ~HasError(run.msgs)
    /\ history = <<[tool |-> <<"unit">>, category |-> <<"Length">>,
                    from |-> <<"meter">>, to |-> <<"kilometer">>,
                    value |-> <<"N", "a", "N">>, result |-> <<"N", "a", "N">>]>>

FuelPair(a) ==
    /\ a.from_unit # a.to_unit
    /\ {a.from_unit, a.to_unit} = {"liter_per_100_kilometer", "mile_per_gallon_us"}

\* C5: a positive fuel-economy value converts between liter_per_100_kilometer
\* and mile_per_gallon_us in both directions: the run succeeds and yields a
\* result (the reciprocal 235.2145833 / value).
FuelEconomyConverts ==
    (/\ IsUnitRun(run) /\ FuelPair(run.args)
     /\ run.locals.dec_val.kind = "finite" /\ ~IsZero(run.locals.dec_val)
     /\ run.locals.dec_val.sign = 0) =>
        /\ ~HasError(run.msgs)
        /\ run.added # <<>>
        /\ run.locals.magnitude # None

\* C5: 8.5 liter_per_100_kilometer to mile_per_gallon_us was refused
FuelEconomyRefused ==
    /\ IsUnitRun(run)
    /\ run.args.from_unit = "liter_per_100_kilometer"
    /\ run.args.to_unit = "mile_per_gallon_us"
    /\ run.args.raw_text = <<"8", ".", "5">>
    /\ run.msgs = <<Error(<<"Conversion error: ">>, "DimensionalityError")>>
    /\ history = <<>>

\* the entry a conversion back to the base it came from starts from
BackOf(e) == [base_from |-> e.to[1], input_text |-> e.output, base_to |-> e.from[1]]

IsBasesRun(r) == r.tool = BasesTool /\ r.button = "Convert"

NaturalIn(e) == parse_base(e.input, e.from[1]).n >= 0

\* C6: a non-negative integer n written in base b1, converted to base b2 and
\* the output converted back to b1: the conversion back is not refused, and
\* its output parses to n in base b1.
BaseRoundTrip ==
    /\ \A k \in 1..(Len(history) - 1) :
          (/\ history[k].from = history[k + 1].to
           /\ history[k].to = history[k + 1].from
           /\ history[k].input = history[k + 1].output
           /\ NaturalIn(history[k + 1])) =>
              parse_base(history[k].output, history[k].to[1])
                  = [ok |-> TRUE,
                     n |-> parse_base(history[k + 1].input, history[k + 1].from[1]).n]
    /\ (/\ IsBasesRun(run) /\ HasError(run.msgs) /\ history # <<>>
        /\ run.args = BackOf(history[1])) => ~NaturalIn(history[1])

\* C6: 40 went from decimal to hexadecimal ("28") and back to decimal ("40")
FortyThereAndBack ==
    /\ Len(history) = 2
    /\ history[2].from = <<"decimal">> /\ history[2].to = <<"hexadecimal">>
    /\ history[2].input = <<"4", "0">> /\ history[2].output = <<"2", "8">>
    /\ history[1].from = <<"hexadecimal">> /\ history[1].to = <<"decimal">>
    /\ history[1].input = <<"2", "8">> /\ history[1].output = <<"4", "0">>

HasNonDigit(text, base) ==
    \E i \in 1..Len(text) : ~IsDigitOf(text[i], Radix(base))

\* C7: the number-base tool refuses, with no history entry, every input that
\* holds a character that is no digit of the source base, and the output of
\* an accepted input holds only digits of the target base.
OnlyBaseDigitsAccepted ==
    IsBasesRun(run) =>
        /\ HasNonDigit(run.args.input_text, run.args.base_from) =>
              /\ run.msgs = <<Error(<<"Invalid input for selected base.">>, "")>>
              /\ run.added = <<>>
        /\ run.added # <<>> =>
              ~HasNonDigit(run.added[1].output, run.args.base_to)

\* C7: "-5" was accepted as a decimal and rendered in binary as "b101"
MinusFiveAccepted ==
    /\ IsBasesRun(run)
    /\ run.args = [base_from |-> "decimal", input_text |-> <<"-", "5">>,
                   base_to |-> "binary"]
    /\ ~HasError(run.msgs)
    /\ Len(history) = 1
    /\ history[1].output = <<"b", "1", "0", "1">>

\* the finite decimal d rounded half-even to p places, written without the
\* zeros that end its fractional part and without a point that ends it
RoundedText(d, p) ==
    LET k      == (-p) - d.exp
        c      == IF k <= 0 THEN d.coef \o Repeat(0, -k) ELSE RoundHalfEven(d.coef, k)
        padded == Repeat(0, p + 1 - Len(c)) \o c
        whole  == StripLeadingZeros(SubSeq(padded, 1, Len(padded) - p))
        frac   == SubSeq(padded, Len(padded) - p + 1, Len(padded))
        kept   == IF \A i \in 1..Len(frac) : frac[i] = 0 THEN <<>>
                  ELSE StripTrailingZeros(frac)
    IN  (IF d.sign = 1 THEN <<"-">> ELSE <<>>) \o DigitChars(whole)
            \o (IF kept = <<>> THEN <<>> ELSE <<".">> \o DigitChars(kept))

\* C8: for every finite decimal value and every precision in 3..60,
\* format_result returns the value rounded to that many places, the zeros
\* that end the fractional part and a point that ends the text removed, the
\* zeros of the integer part kept.
FormatIsRounded ==
    fmt.called => fmt.out = RoundedText(fmt.value, fmt.precision)

\* C8: format_result(Decimal("1E+197"), 3) wrote the digits of a double
HugeValueViaDouble ==
    /\ fmt.called
    /\ fmt.value = Dec("finite", 0, <<1>>, 197) /\ fmt.precision = 3
    /\ fmt.out[1] = "digits of the double"

\* A CSV text read back into rows of cells: a quote opens and closes a
\* quoted field, two quotes inside one are a quote, a comma outside quotes
\* ends a cell, "\r\n" outside quotes ends a row.
\* st: [rows, row, cell, quoted] while reading text from position i
RECURSIVE ReadCsv(_, _, _)
ReadCsv(text, i, st) ==
    IF i > Len(text) THEN st.rows
    ELSE IF st.quoted
    THEN IF text[i] = "\"" /\ i < Len(text) /\ text[i + 1] = "\""
         THEN ReadCsv(text, i + 2, [st EXCEPT !.cell = Append(@, "\"")])
         ELSE IF text[i] = "\""
         THEN ReadCsv(text, i + 1, [st EXCEPT !.quoted = FALSE])
         ELSE ReadCsv(text, i + 1, [st EXCEPT !.cell = Append(@, text[i])])
    ELSE CASE text[i] = "\"" ->
                ReadCsv(text, i + 1, [st EXCEPT !.quoted = TRUE])
           [] text[i] = "," ->
                ReadCsv(text, i + 1,
                        [st EXCEPT !.row = Append(@, st.cell), !.cell = <<>>])
           [] text[i] = "\r" ->
                ReadCsv(text, i + 2,
                        [st EXCEPT !.rows = Append(@, Append(st.row, st.cell)),
                                   !.row = <<>>, !.cell = <<>>])
           [] OTHER ->
                ReadCsv(text, i + 1, [st EXCEPT !.cell = Append(@, text[i])])

CsvRows(text) ==
    ReadCsv(text, 1, [rows |-> <<>>, row |-> <<>>, cell |-> <<>>, quoted |-> FALSE])

\* the text of a field value: str() of an int, the text itself otherwise
TextOf(k, value) == IF k \in IntFields THEN StrOfInt(value) ELSE value

\* rows is the table of h: a header that lists every key of the entries once,
\* then a row per entry, each cell under key k the entry's value for k or empty
IsTableOf(rows, h) ==
    /\ Len(rows) = Len(h) + 1
    /\ \A j \in 1..Len(rows[1]) : Len(rows[1][j]) = 1
    /\ {rows[1][j][1] : j \in 1..Len(rows[1])} = UNION {DOMAIN h[i] : i \in 1..Len(h)}
    /\ \A j1, j2 \in 1..Len(rows[1]) : rows[1][j1] = rows[1][j2] => j1 = j2
    /\ \A i \in 1..Len(h) :
          /\ Len(rows[i + 1]) = Len(rows[1])
          /\ \A j \in 1..Len(rows[1]) :
                rows[i + 1][j] =
                    IF rows[1][j][1] \in DOMAIN h[i]
                    THEN TextOf(rows[1][j][1], h[i][rows[1][j][1]])
                    ELSE <<>>

\* C9: the CSV shown for a non-empty history has a header equal as a set,
\* without duplicates, to the union of the entries' keys, then one row per
\* entry in history order, each with as many cells as the header, the cell
\* under k the entry's value for k, empty where the entry has no k.
CsvIsTableOfHistory ==
    (viewer.shown /\ history # <<>>) => IsTableOf(CsvRows(viewer.csv), history)

\* C9: the CSV was shown for two entries with different fields, one holding
\* an int and one a comma
CsvOfMixedHistory ==
    /\ viewer.shown /\ viewer.csv # <<>>
    /\ Len(history) = 2
    /\ history[1].tool = <<"ascii_char">>
    /\ history[2].tool = <<"url">> /\ history[2].in = <<"a", ",", "b">>

SameNumber(x, d) ==
    /\ x.via = <<>> /\ x.kind = "finite"
    /\ Normalize(x).coef = Normalize(d).coef
    /\ Normalize(x).exp = Normalize(d).exp
    /\ (x.sign = d.sign \/ IsZero(d))

\* C10: converting a decimal x from a unit to the same unit succeeds and
\* returns exactly x, no digit of it lost or altered.
IdentityIsExact ==
    (/\ IsUnitRun(run) /\ run.args.from_unit = run.args.to_unit
     /\ run.locals.dec_val.kind = "finite") =>
        /\ run.added # <<>>
        /\ SameNumber(run.locals.magnitude, run.locals.dec_val)

\* C10: 9007199254740993 meter came back as 9007199254740992 meter
IdentityLostADigit ==
    /\ IsUnitRun(run)
    /\ run.args.from_unit = "meter" /\ run.args.to_unit = "meter"
    /\ run.args.raw_text = <<"9", "0", "0", "7", "1", "9", "9", "2", "5", "4",
                             "7", "4", "0", "9", "9", "3">>
    /\ Len(history) = 1
    /\ history[1].result = <<"9", "0", "0", "7", "1", "9", "9", "2", "5", "4",
                             "7", "4", "0", "9", "9", "2">>

\* C11: the script run triggered by the Open Session History button appends
\* no entry: the history after it is the history before it, whichever tool
\* and mode is selected.
OpeningHistoryAddsNothing ==
    [][run'.button = OpenHistory =>
          /\ history' = history
          /\ run'.added = <<>>]_vars

\* C11: the button was pressed under Code -> Char with code point 65 in the
\* field, and the run appended the ascii_code entry a second time
HistoryButtonAppended ==
    /\ run.button = OpenHistory
    /\ tool = AsciiTool /\ sub = CodeMode
    /\ run.added # <<>>
    /\ Len(history) = 2
    /\ history[1] = history[2]
    /\ history[1].tool = <<"ascii_code">>

-----------------------------------------------------------------------------
(* A session of the Unit Converter over the whole catalog: every category  *)
(* of the selectbox, every from / to choice its unit list allows           *)

CatalogForms ==
    LET Pairs(c) == {c} \X Range(CATEGORIES[c]) \X Range(CATEGORIES[c])
    IN  { FormOf(q, t) :
              q \in UNION { Pairs(c) : c \in DOMAIN CATEGORIES },
              t \in {<<"1">>, <<"8", ".", "5">>} }

NextCatalog == ClickConvert(CatalogForms, MaxUnitOps)

SpecCatalog == Init /\ [][NextCatalog]_vars

InCatalog(a) ==
    /\ a.cat \in DOMAIN CATEGORIES
    /\ a.from_unit \in Range(CATEGORIES[a.cat])
    /\ a.to_unit \in Range(CATEGORIES[a.cat])

\* C12: every category is dimensionally homogeneous: a conversion of a valid
\* finite value between any two members of one category succeeds, with no
\* error message, a result and a history entry.
CategoryPairsConvert ==
    (/\ IsUnitRun(run) /\ InCatalog(run.args)
     /\ run.locals.dec_val.kind = "finite") =>
        /\ ~HasError(run.msgs)
        /\ run.locals.magnitude # None
        /\ run.added # <<>>

\* C12: 1 bit to byte, both offered under Digital storage, was refused with
\* the dimensionality error and left no history entry
BitToByteRefused ==
    /\ IsUnitRun(run)
    /\ run.args.cat = "Digital storage"
    /\ run.args.from_unit = "bit" /\ run.args.to_unit = "byte"
    /\ run.args.raw_text = <<"1">>
    /\ run.msgs = <<Error(<<"Conversion error: ">>, "DimensionalityError")>>
    /\ history = <<>>

=============================================================================
